---------------------------- MODULE Spec2Model ----------------------------
(***************************************************************************)
(* A model of pyTrackMateXML's TrackmateXML class                          *)
(* (src/trackmatexml/TrackmateXML.py): the lineage tracer analysetrackid,  *)
(* the property lookup getproperty and the loader _load / _getspots /      *)
(* _gettracks.                                                             *)
(*                                                                         *)
(* A track is the (n, 2) integer array of the source: a sequence of rows   *)
(* <<source, target>> in input order.  A traced track (lineage) is the     *)
(* dict of the source: [parent, cell, spotids, track].                     *)
(***************************************************************************)
EXTENDS Integers, Sequences, FiniteSets, TLC

VARIABLES
    version,        \* self.version  ("None" until _getversion sets it)
    spotheader,     \* self.spotheader
    spots,          \* self.spots: a sequence of rows, each a sequence of numbers
    tracks,         \* self.tracks
    tracknames,     \* self.tracknames
    doc,            \* the parsed document handed to _load ("None" outside a load)
    pc,             \* where the current call stands
    args,           \* the arguments of the current call
    traced_tracks,  \* analysetrackid: the list of traced tracks
    cellid,         \* analysetrackid: the cell counter
    ret,            \* the value the last call returned
    raised          \* the exception the last call ended in, or "none"

vars == <<version, spotheader, spots, tracks, tracknames, doc, pc, args,
          traced_tracks, cellid, ret, raised>>

(***************************************************************************)
(* Bounds of the model.                                                    *)
(***************************************************************************)
\* every edge list of up to MaxEdges rows is traced
MaxEdges == 3

\* every track with one root, no merges and no cycles of up to
\* MaxRootedEdges rows is traced
MaxRootedEdges == 4

\* A track with a cycle below its root is followed for ever.  The model
\* follows a track until a traced track holds more spot ids than PathCap
\* or the list holds more traced tracks than LineageCap; no acyclic track of
\* the model comes near either (CapsSuffice).
PathCap(track) == 2 * Len(track) + 1

LineageCap(track) == 2 * Len(track)

(***************************************************************************)
(* Sequences and arrays.                                                   *)
(***************************************************************************)
Range(s) == {s[j] : j \in 1..Len(s)}

Last(s) == s[Len(s)]

Max(a, b) == IF a >= b THEN a ELSE b

\* track[:, 0] and track[:, 1]
Column(track, c) == [r \in 1..Len(track) |-> track[r][c]]

\* np.argwhere(track[:, 0] == v).flatten(): the rows whose source is v, in
\* input order
argwhere(track, v) ==
    SelectSeq([r \in 1..Len(track) |-> r], LAMBDA r : track[r][1] = v)

\* track[rows, :].flatten(): the rows laid out one after the other
RECURSIVE flatten(_, _)
flatten(track, rows) ==
    IF rows = <<>> THEN <<>>
    ELSE <<track[rows[1]][1], track[rows[1]][2]>> \o flatten(track, Tail(rows))

(***************************************************************************)
(* np.setdiff1d(ar1, ar2, assume_unique=True) returns ar1[mask] where mask *)
(* is np.in1d(ar1, ar2, assume_unique=True, invert=True).  The source      *)
(* passes the source column, which holds an id once per outgoing edge, so  *)
(* the promise of unique input is broken wherever a spot splits, and what  *)
(* comes back depends on the path in1d takes.  It takes the first when     *)
(* len(ar2) < 10 * len(ar1) ** 0.145, which for the two columns of a track *)
(* means up to 14 edges, and the second from 15 edges on:                  *)
(*   loop: mask &= (ar1 != a) for every a of ar2: every entry of ar1 that  *)
(*         is not in ar2 is kept, as often as it occurs;                   *)
(*   sort: ar1 and ar2 are concatenated and sorted stably and an entry is  *)
(*         kept when its successor differs: of the entries of ar1 that are *)
(*         not in ar2 only the last occurrence is kept.                    *)
(***************************************************************************)
In1dSortFrom == 15

in1d_sorts(ar1, ar2) == Len(ar1) >= In1dSortFrom /\ Len(ar2) >= In1dSortFrom

\* the positions of ar1 that setdiff1d keeps
setdiff1d(ar1, ar2) ==
    LET keep(j) ==
            /\ ar1[j] \notin Range(ar2)
            /\ in1d_sorts(ar1, ar2)
                 => \A k \in (j + 1)..Len(ar1) : ar1[k] # ar1[j]
    IN  SelectSeq([j \in 1..Len(ar1) |-> j], keep)

\* line 212
unique_sources(track) ==
    LET idx == setdiff1d(Column(track, 1), Column(track, 2))
    IN  [j \in 1..Len(idx) |-> track[idx[j]][1]]

(***************************************************************************)
(* The shape of a track, as the claims speak of it.                        *)
(***************************************************************************)
Edges(track) == Range(track)

Sources(track) == Range(Column(track, 1))

Targets(track) == Range(Column(track, 2))

SpotsOf(track) == Sources(track) \cup Targets(track)

\* the ids that are a source and never a target
Roots(track) == Sources(track) \ Targets(track)

OneRoot(track) == Cardinality(Roots(track)) = 1

TheRoot(track) == CHOOSE r \in Roots(track) : TRUE

\* the number of rows that leave, and that enter, a spot
OutRows(track, v) == {r \in 1..Len(track) : track[r][1] = v}

OutDegree(track, v) == Cardinality(OutRows(track, v))

InDegree(track, v) == Cardinality({r \in 1..Len(track) : track[r][2] = v})

\* no spot is entered by two rows
NoMerges(track) == \A v \in Targets(track) : InDegree(track, v) = 1

\* the spots reached from the set S in one or more steps
RECURSIVE ReachFrom(_, _, _)
ReachFrom(track, S, n) ==
    LET step == {e[2] : e \in {f \in Edges(track) : f[1] \in S}}
    IN  IF n = 0 THEN {} ELSE step \cup ReachFrom(track, step, n - 1)

Acyclic(track) ==
    \A v \in SpotsOf(track) : v \notin ReachFrom(track, {v}, Len(track))

\* one root, no merges, no cycles
WellFormed(track) == OneRoot(track) /\ NoMerges(track) /\ Acyclic(track)

\* the target of the n-th row, in input order, that leaves spot v
RECURSIVE NthOutRow(_, _, _)
NthOutRow(track, v, n) ==
    LET first == CHOOSE r \in OutRows(track, v) :
                     \A q \in OutRows(track, v) : r <= q
    IN  IF n = 1 THEN first
        ELSE first + NthOutRow(SubSeq(track, first + 1, Len(track)), v, n - 1)

Child(track, v, n) == track[NthOutRow(track, v, n)][2]

\* in a track without merges: the spot an edge leads to v from
Parent(track, v) == (CHOOSE e \in Edges(track) : e[2] = v)[1]

\* in a well-formed track: the spots from the root down to v
RECURSIVE PathTo(_, _)
PathTo(track, v) ==
    IF v \notin Targets(track) THEN <<v>>
    ELSE Append(PathTo(track, Parent(track, v)), v)

\* in a well-formed track: the spots from v down to the end, where no spot
\* from v on splits
RECURSIVE ChainFrom(_, _)
ChainFrom(track, v) ==
    IF OutRows(track, v) = {} THEN <<v>>
    ELSE <<v>> \o ChainFrom(track, Child(track, v, 1))

\* the spots that split, and the tracks whose only split is one of degree 2
SplitSpots(track) == {v \in Sources(track) : OutDegree(track, v) >= 2}

OneSplit(track) ==
    /\ WellFormed(track)
    /\ Cardinality(SplitSpots(track)) = 1
    /\ \A v \in SplitSpots(track) : OutDegree(track, v) = 2

TheSplit(track) == CHOOSE v \in SplitSpots(track) : TRUE

\* the consecutive pairs of a sequence of spot ids, by position
Pairs(ids) == [k \in 1..(Len(ids) - 1) |-> <<ids[k], ids[k + 1]>>]

(***************************************************************************)
(* The tracks the tracer is run on.  The tracer compares spot ids only for *)
(* equality, so a track stands for every track that renames its ids: ids   *)
(* are numbered in the order of their first appearance.  Every edge list   *)
(* of up to MaxEdges rows is there, in every input order (chains, splits,  *)
(* merges, cycles, self loops, repeated rows, several roots and no root),  *)
(* every track with one root, no merges and no cycles of up to             *)
(* MaxRootedEdges rows, and the edge lists of up to MaxEdges rows as the   *)
(* top of a track of In1dSortFrom rows.                                    *)
(***************************************************************************)
RECURSIVE MaxId(_)
MaxId(track) ==
    IF track = <<>> THEN 0
    ELSE Max(MaxId(SubSeq(track, 1, Len(track) - 1)),
             Max(Last(track)[1], Last(track)[2]))

\* a row added to track t: its source is a known id or the next new one, and
\* so is its target
NextRows(t) ==
    UNION { { <<s, d>> : d \in 1..(Max(MaxId(t), s) + 1) } :
            s \in 1..(MaxId(t) + 1) }

RECURSIVE TracksOfLen(_)
TracksOfLen(n) ==
    IF n = 0 THEN {<<>>}
    ELSE UNION { { Append(t, row) : row \in NextRows(t) } :
                 t \in TracksOfLen(n - 1) }

\* the rows that add neither a merge nor a cycle to track t
ForestRows(t) ==
    { row \in NextRows(t) :
        /\ row[2] \notin Targets(t)
        /\ row[1] # row[2]
        /\ row[1] \notin ReachFrom(t, {row[2]}, Len(t)) }

RECURSIVE ForestsOfLen(_)
ForestsOfLen(n) ==
    IF n = 0 THEN {<<>>}
    ELSE UNION { { Append(t, row) : row \in ForestRows(t) } :
                 t \in ForestsOfLen(n - 1) }

\* the spots no edge leaves
Leaves(track) == Targets(track) \ Sources(track)

\* track t with a chain of new spots below one of its ends, In1dSortFrom
\* rows in all: t as part of a track that is long enough for in1d to sort
RECURSIVE Lengthen(_, _)
Lengthen(t, from) ==
    IF Len(t) >= In1dSortFrom THEN t
    ELSE Lengthen(Append(t, <<from, MaxId(t) + 1>>), MaxId(t) + 1)

LongTrack(t) ==
    Lengthen(t, IF Leaves(t) = {} THEN MaxId(t)
                ELSE CHOOSE v \in Leaves(t) : \A w \in Leaves(t) : w <= v)

ShortTracks ==
    UNION { TracksOfLen(n) : n \in 0..MaxEdges }
    \cup UNION { { t \in ForestsOfLen(n) : OneRoot(t) } :
                 n \in (MaxEdges + 1)..MaxRootedEdges }

\* a track with one root and a cycle is traced in its short form only
LongTracks ==
    { LongTrack(t) : t \in { u \in UNION { TracksOfLen(n) : n \in 1..MaxEdges } :
                               Acyclic(u) \/ ~OneRoot(u) } }

Tracks == ShortTracks \cup LongTracks

(***************************************************************************)
(* The object as __init__ leaves it (lines 37-45), and no call made yet.   *)
(***************************************************************************)
Constructed ==
    /\ version = "None"
    /\ spotheader = <<>>
    /\ spots = <<>>
    /\ tracks = <<>>
    /\ tracknames = <<>>

NoCall ==
    /\ traced_tracks = <<>>
    /\ cellid = 0
    /\ ret = <<>>
    /\ raised = "none"

(***************************************************************************)
(* analysetrackid (lines 205-288).                                         *)
(***************************************************************************)
\* a traced track, as the dict literals of lines 219-226, 250-255, 261-266
\* and 277-282 build it
new_track(parent, cell, spotids) ==
    [parent |-> parent, cell |-> cell, spotids |-> spotids, track |-> TRUE]

\* a slip in line 213: only the track without a starting point is turned away
some_startingpoint(us) == Len(us) >= 1

\* line 213: the track can be followed
one_startingpoint(us) == Len(us) = 1

\* lines 218-228: the first traced track
first_track(track, us) ==
    new_track(0, 1, flatten(track, argwhere(track, us[1])))

\* line 229: any([x["track"] for x in traced_tracks])
any_track(tt) == \E j \in 1..Len(tt) : tt[j].track

\* a slip in line 238: the traced track is left as it is
keep_track(tt, j) == tt

\* lines 237-238: no edge leaves the last spot
end_track(tt, j) == [tt EXCEPT ![j].track = FALSE]

\* lines 239-242 and 285-287: the target is appended to the traced track
append_target(tt, j, target) ==
    [tt EXCEPT ![j].spotids = Append(tt[j].spotids, target)]

\* a slip in lines 244-248: the history is never copied
bare_spotids(duplicate_split, ids, row) == row

\* lines 245-247 and 258, 270-274: the spot ids a new traced track starts
\* with: the history and the target, or the row of the edge alone
split_spotids(duplicate_split, ids, row) ==
    IF duplicate_split THEN Append(ids, row[2]) ELSE row

\* lines 244-267: a new traced track for each target from the n-th on, the
\* cell counter going up by one for each
RECURSIVE extra_tracks(_, _, _, _, _, _)
extra_tracks(track, targetidx, n, duplicate_split, parent, c) ==
    IF n > Len(targetidx) THEN <<>>
    ELSE <<new_track(parent.cell, c + 1,
                     split_spotids(duplicate_split, parent.spotids,
                                   track[targetidx[n]]))>>
         \o extra_tracks(track, targetidx, n + 1, duplicate_split, parent, c + 1)

\* lines 268-283: break_split ends the parent and starts a child for the
\* first target
break_parent(track, targetidx, duplicate_split, tt, j, c) ==
    Append(end_track(tt, j),
           new_track(tt[j].cell, c + 1,
                     split_spotids(duplicate_split, tt[j].spotids,
                                   track[targetidx[1]])))

\* lines 231-287: the body of the for loop for traced track j;
\* <<traced_tracks, cellid>> afterwards
for_body(track, duplicate_split, break_split, tt, c, j) ==
    LET targetidx == argwhere(track, Last(tt[j].spotids))
        extra == extra_tracks(track, targetidx, 2, duplicate_split, tt[j], c)
        c1 == c + Len(extra)
    IN  IF ~tt[j].track THEN <<tt, c>>
        ELSE IF Len(targetidx) = 0 THEN <<end_track(tt, j), c>>
        ELSE IF Len(targetidx) = 1
             THEN <<append_target(tt, j, track[targetidx[1]][2]), c>>
        ELSE IF break_split
             THEN <<break_parent(track, targetidx, duplicate_split,
                                 tt \o extra, j, c1), c1 + 1>>
        ELSE <<append_target(tt \o extra, j, track[targetidx[1]][2]), c1>>

WithinCaps(track, tt) ==
    /\ Len(tt) <= LineageCap(track)
    /\ \A j \in 1..Len(tt) : Len(tt[j].spotids) <= PathCap(track)

\* line 230: the for loop from traced track j on; it goes on to the traced
\* tracks appended while it runs.  st is <<traced_tracks, cellid>>, and the
\* body's result is bound as a value before the loop goes on.
RECURSIVE for_loop(_, _, _, _, _)
for_loop(track, duplicate_split, break_split, st, j) ==
    IF j > Len(st[1]) \/ ~WithinCaps(track, st[1]) THEN st
    ELSE CHOOSE after \in
             { for_loop(track, duplicate_split, break_split, next, j + 1) :
               next \in { for_body(track, duplicate_split, break_split,
                                   st[1], st[2], j) } } : TRUE

\* the track analysetrackid was called on (line 211; trackid counts from 0)
TheTrack == tracks[args.trackid + 1]

\* lines 211-228: the starting point is looked for and the first traced
\* track made
Start ==
    /\ pc = "analysetrackid"
    /\ LET us == unique_sources(TheTrack)
       IN  IF one_startingpoint(us)
           THEN /\ cellid' = 1
                /\ traced_tracks' = <<first_track(TheTrack, us)>>
                /\ pc' = "while"
                /\ ret' = ret
           ELSE /\ ret' = <<>>
                /\ pc' = "done"
                /\ UNCHANGED <<cellid, traced_tracks>>
    /\ UNCHANGED <<version, spotheader, spots, tracks, tracknames, doc, args,
                   raised>>

\* lines 229-287: the while condition holds and the for loop runs once over
\* the traced tracks
Pass ==
    /\ pc = "while"
    /\ any_track(traced_tracks)
    /\ \E after \in { for_loop(TheTrack, args.duplicate_split, args.break_split,
                               <<traced_tracks, cellid>>, 1) } :
         /\ WithinCaps(TheTrack, after[1])
         /\ traced_tracks' = after[1]
         /\ cellid' = after[2]
    /\ UNCHANGED <<version, spotheader, spots, tracks, tracknames, doc, pc,
                   args, ret, raised>>

\* lines 229 and 288: no traced track is followed any more
Return ==
    /\ pc = "while"
    /\ ~any_track(traced_tracks)
    /\ ret' = traced_tracks
    /\ pc' = "done"
    /\ UNCHANGED <<version, spotheader, spots, tracks, tracknames, doc, args,
                   traced_tracks, cellid, raised>>

\* analysetrackid is called on an object that holds one track
InitTrace ==
    /\ version = "None"
    /\ spotheader = <<>>
    /\ spots = <<>>
    /\ tracks \in { <<t>> : t \in Tracks }
    /\ tracknames = <<"Track_0">>
    /\ doc = "None"
    /\ pc = "analysetrackid"
    /\ args \in { [op |-> "analysetrackid", trackid |-> 0,
                   duplicate_split |-> d, break_split |-> b] :
                  d \in BOOLEAN, b \in BOOLEAN }
    /\ NoCall

NextTrace == Start \/ Pass \/ Return

Spec == InitTrace /\ [][NextTrace]_vars

\* the interpreter runs the call on to its end
SpecFair == Spec /\ WF_vars(NextTrace)

(***************************************************************************)
(* The answer of analysetrackid.                                           *)
(***************************************************************************)
Done == pc = "done"

duplicate_split == args.duplicate_split

break_split == args.break_split

\* the caps of the model stop no acyclic track
CapsSuffice ==
    (pc = "while" /\ Acyclic(TheTrack) /\ any_track(traced_tracks))
        => (ENABLED Pass
            /\ Len(traced_tracks) < LineageCap(TheTrack)
            /\ \A j \in 1..Len(traced_tracks) :
                 Len(traced_tracks[j].spotids) < PathCap(TheTrack))


(***************************************************************************)
(* Claims about analysetrackid.                                            *)
(***************************************************************************)
X == TheSplit(TheTrack)

Y == Child(TheTrack, X, 1)

Z == Child(TheTrack, X, 2)

RootToX == PathTo(TheTrack, X)

FollowsEdges(ids) ==
    /\ Len(ids) >= 2
    /\ \A k \in 1..(Len(ids) - 1) : Pairs(ids)[k] \in Edges(TheTrack)

\* how often edge e is a consecutive pair of the returned spot ids
Occurrences(e) ==
    Cardinality({ jk \in (1..Len(ret)) \X (1..PathCap(TheTrack)) :
                    /\ jk[2] < Len(ret[jk[1]].spotids)
                    /\ Pairs(ret[jk[1]].spotids)[jk[2]] = e })

\* the root has one outgoing edge
SingleStart == OutDegree(TheTrack, TheRoot(TheTrack)) = 1

\* C1: for a track with one root, no merges and no cycles, under each of
\* the four policies, every returned lineage holds at least two spot ids and
\* each consecutive pair of them is an edge of the track.
C1_LineagesFollowEdges ==
    (Done /\ WellFormed(TheTrack))
        => \A j \in 1..Len(ret) : FollowsEdges(ret[j].spotids)

\* C1 holds of the tracks whose root has one outgoing edge.
C1_SingleStart ==
    (Done /\ WellFormed(TheTrack) /\ SingleStart)
        => /\ Len(ret) >= 1
           /\ \A j \in 1..Len(ret) : FollowsEdges(ret[j].spotids)

\* C2: for an acyclic track with one root the loop of analysetrackid ends
\* under every policy: no traced track is followed any more, and the list of
\* traced tracks, those appended during a pass among them, is returned.
C2_Terminates ==
    /\ (OneRoot(TheTrack) /\ Acyclic(TheTrack)) ~> Done
    /\ [](Done /\ OneRoot(TheTrack) /\ Acyclic(TheTrack)
            => ret = traced_tracks /\ ~any_track(ret))

C2_Witness ==
    /\ Done
    /\ OneRoot(TheTrack) /\ Acyclic(TheTrack)
    /\ Len(ret) >= 3
    /\ \E j \in 1..Len(ret) : Len(ret[j].spotids) >= 3

\* C3: for a track with one root, no merges and no cycles, without
\* duplicate_split, every edge of the track is a consecutive pair of spot ids
\* in one returned lineage, once.
C3_EveryEdgeOnce ==
    (Done /\ WellFormed(TheTrack) /\ ~duplicate_split)
        => \A e \in Edges(TheTrack) : Occurrences(e) = 1

\* C3 holds of the tracks whose root has one outgoing edge.
C3_SingleStart ==
    (Done /\ WellFormed(TheTrack) /\ ~duplicate_split /\ SingleStart)
        => \A e \in Edges(TheTrack) : Occurrences(e) = 1

InteriorSplit == OneSplit(TheTrack) /\ X # TheRoot(TheTrack)

BranchOf(l, target) ==
    /\ l.parent = ret[1].cell
    /\ l.cell # ret[1].cell
    /\ LET start == IF duplicate_split THEN Append(RootToX, target)
                    ELSE <<X, target>>
       IN  /\ Len(l.spotids) >= Len(start)
           /\ SubSeq(l.spotids, 1, Len(start)) = start

C5_BreakInThree ==
    (Done /\ OneSplit(TheTrack) /\ break_split)
        => /\ Len(ret) = 3
           /\ ret[1].spotids = RootToX
           /\ ret[2].cell # ret[3].cell
           /\ \/ BranchOf(ret[2], Y) /\ BranchOf(ret[3], Z)
              \/ BranchOf(ret[2], Z) /\ BranchOf(ret[3], Y)

\* C5 holds of the tracks whose split is not at the root.
C5_InteriorSplit ==
    (Done /\ InteriorSplit /\ break_split)
        => /\ Len(ret) = 3
           /\ ret[1].spotids = RootToX
           /\ ret[2].cell # ret[3].cell
           /\ \/ BranchOf(ret[2], Y) /\ BranchOf(ret[3], Z)
              \/ BranchOf(ret[2], Z) /\ BranchOf(ret[3], Y)

\* C6: when the source ids that are no target ids are not exactly one id (no
\* root, as in an empty or a cyclic track, or several roots), analysetrackid
\* returns the empty list under every policy; nothing is raised and no
\* lineage is made.
C6_NoRootNoLineage ==
    ~OneRoot(TheTrack)
        => /\ pc \in {"analysetrackid", "done"}
           /\ traced_tracks = <<>>
           /\ raised = "none"
           /\ Done => ret = <<>>

C6_Witness ==
    /\ Done
    /\ Cardinality(Roots(TheTrack)) = 2
    /\ ret = <<>>

\* the root has two outgoing edges or more
RootSplits == OutDegree(TheTrack, TheRoot(TheTrack)) >= 2

\* a lineage starts at the root or at a spot with several outgoing edges
StartsAtRootOrSplit(ids) ==
    ids # <<>> /\ ids[1] \in {TheRoot(TheTrack)} \cup SplitSpots(TheTrack)

\* C11: when the one root of a track has two outgoing edges or more,
\* analysetrackid still traces the track under every policy: the list it
\* returns is not empty, every edge out of the root is followed by a
\* returned lineage, and every returned lineage is a path along edges of
\* the track that starts at the root or at a split.
C11_RootSplitIsTraced ==
    (Done /\ WellFormed(TheTrack) /\ RootSplits)
        => /\ ret # <<>>
           /\ \A r \in OutRows(TheTrack, TheRoot(TheTrack)) :
                Occurrences(TheTrack[r]) >= 1
           /\ \A j \in 1..Len(ret) :
                /\ FollowsEdges(ret[j].spotids)
                /\ StartsAtRootOrSplit(ret[j].spotids)

\* what analysetrackid does with such a track while it is short: it finds
\* as many starting points as the root has outgoing edges and returns the
\* empty list
C11_ShortRootSplitIsEmpty ==
    (Done /\ WellFormed(TheTrack) /\ RootSplits
          /\ ~in1d_sorts(Column(TheTrack, 1), Column(TheTrack, 2)))
        => ret = <<>>


(***************************************************************************)
(* The parsed document.  An element's attrib is a sequence of <<name, raw>>*)
(* pairs in document order, a raw value a sequence of characters.          *)
(*   doc.root    the tag of the root element                               *)
(*   doc.version its version attribute                                     *)
(*   doc.nspots  the nspots attribute of AllSpots, as a raw value          *)
(*   doc.frames  AllSpots: the SpotsInFrame elements, each the sequence of *)
(*               the attribs of its Spot elements                          *)
(*   doc.tracks  AllTracks: the Track elements, each [attrib, edges]       *)
(***************************************************************************)
\* the largest number of spots of a document
MaxSpots == 2

\* the largest number of frames of a document
MaxFrames == 2

DigitValue ==
    [c \in {"0", "1", "2", "3", "4", "5", "6", "7", "8", "9"} |->
        CASE c = "0" -> 0 [] c = "1" -> 1 [] c = "2" -> 2 [] c = "3" -> 3
          [] c = "4" -> 4 [] c = "5" -> 5 [] c = "6" -> 6 [] c = "7" -> 7
          [] c = "8" -> 8 [] c = "9" -> 9]

IsDigits(raw) ==
    raw # <<>> /\ \A k \in 1..Len(raw) : raw[k] \in DOMAIN DigitValue

RECURSIVE DigitsValue(_)
DigitsValue(raw) ==
    IF raw = <<>> THEN 0
    ELSE 10 * DigitsValue(SubSeq(raw, 1, Len(raw) - 1))
         + DigitValue[Last(raw)]

\* int(raw) succeeds: the raw values of the model hold no sign and no blank
int_ok(raw) == IsDigits(raw)

int(raw) == DigitsValue(raw)

\* float(raw) succeeds: digits with at most one point among them.  The raw
\* values of the model hold no sign, exponent, blank, "inf" or "nan".
float_ok(raw) ==
    LET points == {k \in 1..Len(raw) : raw[k] = "."}
        digits == SelectSeq(raw, LAMBDA c : c # ".")
    IN  Cardinality(points) <= 1 /\ IsDigits(digits)

\* float(raw), in tenths: the raw values of the model hold at most one
\* decimal
float(raw) ==
    LET points == {k \in 1..Len(raw) : raw[k] = "."}
        point == IF points = {} THEN Len(raw) + 1
                 ELSE CHOOSE k \in points : TRUE
        whole == SubSeq(raw, 1, point - 1)
        tenth == SubSeq(raw, point + 1, Len(raw))
    IN  10 * DigitsValue(whole) + DigitsValue(tenth)

\* attrib.get(key, default) and attrib[key]
Has(attrib, key) == \E k \in 1..Len(attrib) : attrib[k][1] = key

Get(attrib, key, default) ==
    IF Has(attrib, key)
    THEN attrib[CHOOSE k \in 1..Len(attrib) : attrib[k][1] = key][2]
    ELSE default

\* [a for a in attrib]
Names(attrib) == [k \in 1..Len(attrib) |-> attrib[k][1]]

\* keys.remove(k): the first entry equal to k goes
remove(keys, key) ==
    LET at == CHOOSE k \in 1..Len(keys) :
                  keys[k] = key /\ \A q \in 1..(k - 1) : keys[q] # key
    IN  SubSeq(keys, 1, at - 1) \o SubSeq(keys, at + 1, Len(keys))

(***************************************************************************)
(* _getspots (lines 161-181).                                              *)
(***************************************************************************)
\* lines 170-174: the for loop over keys, at position idx of the list; the
\* list iterator moves on by one whether or not the entry was removed
RECURSIVE header_loop(_, _, _)
header_loop(attrib, keys, idx) ==
    IF idx > Len(keys) THEN keys
    ELSE IF float_ok(Get(attrib, keys[idx], <<>>))
         THEN header_loop(attrib, keys, idx + 1)
         ELSE header_loop(attrib, remove(keys, keys[idx]), idx + 1)

\* lines 169-175
header(attrib) == header_loop(attrib, Names(attrib), 1)

\* line 176: np.zeros((nspots, len(keys)))
zeros(rows, columns) == [r \in 1..rows |-> [c \in 1..columns |-> 0]]

\* the spots of all frames in the order the loops of lines 177-178 meet them
RECURSIVE Encountered(_)
Encountered(frames) ==
    IF frames = <<>> THEN <<>> ELSE frames[1] \o Encountered(Tail(frames))

\* line 180: self.spots[spotid, i] = spot.attrib.get(k, None).  The index is
\* checked first, then the value converted: a missing attribute is nan.
\* [table, raised]
assign(table, spotid, column, attrib, key) ==
    IF spotid + 1 > Len(table)
    THEN [table |-> table, raised |-> "IndexError"]
    ELSE IF ~Has(attrib, key)
    THEN [table |-> [table EXCEPT ![spotid + 1][column] = "nan"],
          raised |-> "none"]
    ELSE IF ~float_ok(Get(attrib, key, <<>>))
    THEN [table |-> table, raised |-> "ValueError"]
    ELSE [table |-> [table EXCEPT ![spotid + 1][column] =
                        float(Get(attrib, key, <<>>))],
          raised |-> "none"]

\* lines 179-180: the columns of one spot from column on
RECURSIVE fill_row(_, _, _, _, _)
fill_row(table, spotid, column, attrib, keys) ==
    IF column > Len(keys) THEN [table |-> table, raised |-> "none"]
    ELSE LET a == assign(table, spotid, column, attrib, keys[column])
         IN  IF a.raised # "none" THEN a
             ELSE fill_row(a.table, spotid, column + 1, attrib, keys)

\* lines 177-181: the spots from the one numbered spotid on
RECURSIVE fill(_, _, _, _)
fill(table, spotid, rest, keys) ==
    IF rest = <<>> THEN [table |-> table, raised |-> "none"]
    ELSE LET a == fill_row(table, spotid, 1, rest[1], keys)
         IN  IF a.raised # "none" THEN a
             ELSE fill(a.table, spotid + 1, Tail(rest), keys)

\* _getspots: the object's [spotheader, spots] afterwards and what it raised;
\* line 168 raises when there is no first spot, before anything is assigned
getspots(d, old) ==
    IF ~int_ok(d.nspots)
    THEN [spotheader |-> old.spotheader, spots |-> old.spots,
          raised |-> "ValueError"]
    ELSE IF d.frames = <<>> \/ d.frames[1] = <<>>
    THEN [spotheader |-> old.spotheader, spots |-> old.spots,
          raised |-> "IndexError"]
    ELSE LET keys == header(d.frames[1][1])
             a == fill(zeros(int(d.nspots), Len(keys)), 0,
                       Encountered(d.frames), keys)
         IN  [spotheader |-> keys, spots |-> a.table, raised |-> a.raised]

(***************************************************************************)
(* _gettracks (lines 183-194).                                             *)
(***************************************************************************)
\* lines 190-192: one row of the edge table; the id is -1 where the
\* attribute is missing
edge_ok(edge) ==
    /\ Has(edge, "SPOT_SOURCE_ID") => int_ok(Get(edge, "SPOT_SOURCE_ID", <<>>))
    /\ Has(edge, "SPOT_TARGET_ID") => int_ok(Get(edge, "SPOT_TARGET_ID", <<>>))

edge_id(edge, key) == IF Has(edge, key) THEN int(Get(edge, key, <<>>)) ELSE -1

edge_row(edge) ==
    <<edge_id(edge, "SPOT_SOURCE_ID"), edge_id(edge, "SPOT_TARGET_ID")>>

\* lines 188-194: the Track elements from the first of rest on;
\* [tracks, tracknames, raised]
RECURSIVE gettracks(_, _, _)
gettracks(rest, ts, names) ==
    IF rest = <<>> THEN [tracks |-> ts, tracknames |-> names, raised |-> "none"]
    ELSE IF \E k \in 1..Len(rest[1].edges) : ~edge_ok(rest[1].edges[k])
    THEN [tracks |-> ts, tracknames |-> names, raised |-> "ValueError"]
    ELSE gettracks(Tail(rest),
                   Append(ts, [k \in 1..Len(rest[1].edges) |->
                                  edge_row(rest[1].edges[k])]),
                   Append(names, Get(rest[1].attrib, "name", "unknown")))

(***************************************************************************)
(* _load (lines 88-90): _getversion (lines 98-104), then _analysetree      *)
(* (lines 106-120) and _getmodel (lines 128-141), which hands AllSpots to  *)
(* _getspots and then AllTracks to _gettracks.                             *)
(***************************************************************************)
\* lines 98-104: a root that is not TrackMate is logged and nothing else
getversion(d, old) == IF d.root = "TrackMate" THEN d.version ELSE old

\* the object after _load(d), and what _load raised
load(d, old) ==
    LET s == getspots(d, old)
        t == IF s.raised # "none"
             THEN [tracks |-> old.tracks, tracknames |-> old.tracknames,
                   raised |-> s.raised]
             ELSE gettracks(d.tracks, old.tracks, old.tracknames)
    IN  [version |-> getversion(d, old.version),
         spotheader |-> s.spotheader, spots |-> s.spots,
         tracks |-> t.tracks, tracknames |-> t.tracknames,
         raised |-> t.raised]


(***************************************************************************)
(* The documents that are loaded.  The Spot elements of a document carry   *)
(* the same attribute names in the same order, as TrackMate writes them;   *)
(* each value is a number or a text.                                       *)
(***************************************************************************)
AttrNames == {"ID", "name", "label"}

RawValues == { <<"7">>, <<"I", "D", "7">> }

\* the sequences of different names
RECURSIVE NameOrdersOfLen(_)
NameOrdersOfLen(n) ==
    IF n = 0 THEN {<<>>}
    ELSE UNION { { Append(o, a) : a \in AttrNames \ Range(o) } :
                 o \in NameOrdersOfLen(n - 1) }

NameOrders == UNION { NameOrdersOfLen(n) : n \in 0..Cardinality(AttrNames) }

\* the Spot attribs with the names of order o
SpotAttribs(o) ==
    { [k \in 1..Len(o) |-> <<o[k], v[k]>>] : v \in [1..Len(o) -> RawValues] }

\* the ways to lay n spots with the names of order o out in frames
RECURSIVE FramesOf(_, _, _)
FramesOf(o, n, f) ==
    IF f = 0 THEN (IF n = 0 THEN {<<>>} ELSE {})
    ELSE UNION { { <<first>> \o rest :
                     first \in [1..m -> SpotAttribs(o)],
                     rest \in FramesOf(o, n - m, f - 1) } :
                 m \in 0..n }

\* the AllSpots elements that hold n spots
AllSpotsWith(n) ==
    UNION { FramesOf(o, n, f) : o \in NameOrders, f \in 0..MaxFrames }

DigitChar(n) == CHOOSE c \in DOMAIN DigitValue : DigitValue[c] = n

AllTracksChoices ==
    { <<>>,
      << [attrib |-> << <<"name", "Track_0">> >>,
          edges |-> << << <<"SPOT_SOURCE_ID", <<"7">> >>,
                          <<"SPOT_TARGET_ID", <<"8">> >> >> >>] >>,
      << [attrib |-> <<>>,
          edges |-> << << <<"SPOT_SOURCE_ID", <<"7">> >> >> >>] >> }

\* the documents that declare nspots spots
DocsDeclaring(nspots) ==
    UNION { { [root |-> r, version |-> "7.11.1",
               nspots |-> <<DigitChar(nspots)>>, frames |-> fr, tracks |-> ts] :
              r \in {"TrackMate", "NotTrackMate"},
              fr \in AllSpotsWith(n), ts \in AllTracksChoices } :
            n \in 0..MaxSpots }

\* loadfile / loadtree (lines 53-63) on a new object
Load ==
    /\ pc = "new"
    /\ \E nspots \in 0..MaxSpots : \E d \in DocsDeclaring(nspots) :
         LET after == load(d, [version |-> version, spotheader |-> spotheader,
                               spots |-> spots, tracks |-> tracks,
                               tracknames |-> tracknames])
         IN  /\ doc' = d
             /\ version' = after.version
             /\ spotheader' = after.spotheader
             /\ spots' = after.spots
             /\ tracks' = after.tracks
             /\ tracknames' = after.tracknames
             /\ raised' = after.raised
             /\ pc' = IF after.raised = "none" THEN "loaded" ELSE "failed"
    /\ args' = [op |-> "_load"]
    /\ UNCHANGED <<traced_tracks, cellid, ret>>

InitLoad ==
    /\ Constructed
    /\ doc = "None"
    /\ pc = "new"
    /\ args = [op |-> "none"]
    /\ NoCall

NextLoad == Load

SpecLoad == InitLoad /\ [][NextLoad]_vars

(***************************************************************************)
(* Claims about the load.                                                  *)
(***************************************************************************)
Loaded == pc = "loaded"

LoadEnded == pc \in {"loaded", "failed"}

HasFirstSpot == doc.frames # <<>> /\ doc.frames[1] # <<>>

FirstSpot == doc.frames[1][1]

\* the names of an attrib whose values convert to a number, in their order
NumericNames(attrib) ==
    SelectSeq(Names(attrib), LAMBDA a : float_ok(Get(attrib, a, <<>>)))

\* C8: the spot header built from the first spot holds the names whose
\* value in the first spot converts to a number, in their order, and no
\* other name, however numeric and other attributes are arranged.
C8_HeaderIsNumericNames ==
    (LoadEnded /\ HasFirstSpot) => spotheader = NumericNames(FirstSpot)

\* C8 holds where no two attributes that are not numeric stand side by side.
NoTwoTextsAdjacent(attrib) ==
    \A k \in 1..(Len(attrib) - 1) :
        float_ok(attrib[k][2]) \/ float_ok(attrib[k + 1][2])

C8_NoneAdjacent ==
    (LoadEnded /\ HasFirstSpot /\ NoTwoTextsAdjacent(FirstSpot))
        => spotheader = NumericNames(FirstSpot)

\* C9: when the declared number of spots differs from the number of spots
\* met, the load ends in an error; a load that ends without one leaves a
\* table with one row for each spot met, as many as declared.
C9_CountMismatchIsError ==
    LoadEnded
        => /\ int(doc.nspots) # Len(Encountered(doc.frames)) => ~Loaded
           /\ Loaded => /\ Len(spots) = Len(Encountered(doc.frames))
                        /\ Len(spots) = int(doc.nspots)

\* what the load does about the count: more spots than declared raise where
\* there is a column to fill, and the table has the declared number of rows
C9_DeclaredRows ==
    LoadEnded
        => /\ (/\ int(doc.nspots) < Len(Encountered(doc.frames))
               /\ HasFirstSpot /\ header(FirstSpot) # <<>>) => ~Loaded
           /\ Loaded => Len(spots) = int(doc.nspots)

\* C10: the load of a document whose root tag is wrong is given up as a
\* whole: no spots, spot header, tracks or track names of the document are
\* kept.
C10_WrongRootKeepsNothing ==
    (LoadEnded /\ doc.root # "TrackMate")
        => /\ spots = <<>>
           /\ spotheader = <<>>
           /\ tracks = <<>>
           /\ tracknames = <<>>

\* what the load does about the root tag: only the version is left unset
C10_WrongRootKeepsVersion ==
    (LoadEnded /\ doc.root # "TrackMate") => version = "None"

(***************************************************************************)
(* getproperty.  The numbers of the spot table are kept in tenths, as      *)
(* float gives them; a spot id asked for is a whole number.                *)
(***************************************************************************)
\* list.index(name)
index(keys, name) == CHOOSE k \in 1..Len(keys) : keys[k] = name

\* np.zeros((0, 0))
EmptyArray == [shape |-> <<0, 0>>, data |-> <<>>]

\* self.spots[:, spotid_idx] == s, as the rows it selects
matching(table, spotid_idx, s) ==
    { r \in 1..Len(table) : table[r][spotid_idx] = 10 * s }

\* lines 81-86: the values of the property for the spot ids
property_of(spotids, spot_property, keys, table) ==
    IF "ID" \notin Range(keys)
    THEN [ret |-> <<>>, raised |-> "ValueError"]
    ELSE LET prop_idx == index(keys, spot_property)
             spotid_idx == index(keys, "ID")
         IN  IF \E i \in 1..Len(spotids) :
                    Cardinality(matching(table, spotid_idx, spotids[i])) # 1
             THEN [ret |-> <<>>, raised |-> "ValueError"]
             ELSE [ret |-> [shape |-> <<Len(spotids)>>,
                            data |-> [i \in 1..Len(spotids) |->
                                table[CHOOSE r \in matching(table, spotid_idx,
                                                            spotids[i]) : TRUE]
                                     [prop_idx]]],
                    raised |-> "none"]

\* a slip in getproperty: a property that is not in the header is answered
\* with zeros, one for each spot id
zeros_for_unknown(spotids, spot_property, keys, table) ==
    IF spot_property \notin Range(keys)
    THEN [ret |-> [shape |-> <<Len(spotids)>>,
                   data |-> [i \in 1..Len(spotids) |-> 0]],
          raised |-> "none"]
    ELSE property_of(spotids, spot_property, keys, table)

\* getproperty, lines 74-86
getproperty(spotids, spot_property, keys, table) ==
    IF spot_property \notin Range(keys)
    THEN [ret |-> EmptyArray, raised |-> "none"]
    ELSE property_of(spotids, spot_property, keys, table)

\* the spot ids and the properties that are asked for
SpotIds == {1, 2}

\* the spot ids of a lineage: no spot twice
SpotIdLists ==
    { l \in UNION { [1..n -> SpotIds] : n \in 0..Cardinality(SpotIds) } :
        \A i, k \in 1..Len(l) : l[i] = l[k] => i = k }

Properties == AttrNames \cup {"QUALITY"}

GetProperty ==
    /\ pc = "loaded"
    /\ \E spotids \in SpotIdLists, spot_property \in Properties :
         \E result \in {getproperty(spotids, spot_property, spotheader, spots)} :
            /\ args' = [op |-> "getproperty", spotids |-> spotids,
                        spot_property |-> spot_property]
            /\ ret' = result.ret
            /\ raised' = result.raised
    /\ UNCHANGED <<version, spotheader, spots, tracks, tracknames, doc, pc,
                   traced_tracks, cellid>>

\* the object after a load: a header of different names and a table of
\* numbers with a row for each spot
InitLookup ==
    /\ version = "7.11.1"
    /\ spotheader \in NameOrders
    /\ \E n \in 0..MaxSpots :
         spots \in [1..n -> [1..Len(spotheader) -> {10 * s : s \in SpotIds}]]
    /\ tracks = <<>>
    /\ tracknames = <<>>
    /\ doc = "None"
    /\ pc = "loaded"
    /\ args = [op |-> "none"]
    /\ NoCall

NextLookup == GetProperty

SpecLookup == InitLookup /\ [][NextLookup]_vars

\* C7: a call of getproperty with a property that is not in the spot header
\* returns an empty array, raises nothing and leaves the spots, the header
\* and the tracks of the object as they were.
C7_UnknownPropertyIsEmpty ==
    [][ (args'.op = "getproperty" /\ args'.spot_property \notin Range(spotheader))
          => /\ ret' = EmptyArray
             /\ raised' = "none"
             /\ spots' = spots
             /\ spotheader' = spotheader
             /\ tracks' = tracks
             /\ tracknames' = tracknames
             /\ version' = version ]_vars

C7_Witness ==
    /\ args.op = "getproperty"
    /\ args.spot_property \notin Range(spotheader)
    /\ args.spotids # <<>>
    /\ "ID" \in Range(spotheader)
    /\ spots # <<>>
    /\ ret = EmptyArray

=============================================================================
